---- MODULE Spec2Model ----
(***************************************************************************)
(* Layered graph layout engine of app_mockup/backend/graph_layout.py:      *)
(* assign_layers (queue based longest-path layering), barycenter_ordering  *)
(* (top-down / bottom-up sweeps), order_bottom_layer_by_support (leaf      *)
(* regroup), the position projection and count_edge_crossings.             *)
(*                                                                         *)
(* Node ids are strings in the code and are compared lexicographically;    *)
(* here an id is a positive integer and the integer order stands for the   *)
(* lexicographic order of the strings.  An edge is <<source, target>>.     *)
(* A barycenter (a mean of integers, or hash % 10000 / 10000) is kept as   *)
(* an exact fraction <<numerator, denominator>>; <<1, 0>> is float('inf'). *)
(***************************************************************************)
EXTENDS Integers, Sequences, FiniteSets, TLC

\* ------------------------------------------------------------------ bounds
MaxNodes == 3
MaxEdges == 3
MaxIterations == 1
\* the simple graphs of SpecSimple
SimpleNodes == 4
SimpleEdges == 4
\* the fan-in graphs of SpecFanIn
FanParents == 3
FanLeaves == 3
FanMult == 3
\* the inputs of SpecCrossings
CrossNodes == 4
CrossLayers == 2
CrossEdges == 3
\* the inputs of SpecSpaced
SpacedNodes == 4
SpacedEdges == 2
MaxSpacing == 3
MaxSeparation == 2
\* the inputs of SpecApply
ApplyNodes == 2
\* the inputs of SpecThreads
ThreadNodes == 3
ThreadEdges == 2
\* the inputs of SpecDeep
DeepNodes == 5
DeepEdges == 4
\* the inputs of SpecNamed
NamedNodes == 4
NamedEdges == 3
\* the inputs of SpecLive
LiveNodes == 3
LiveEdges == 3

\* ------------------------------------------------------- program constants
HASH_FALLBACK_RANGE == 10000
DefaultNodeSpacing == 250
DefaultLayerSeparation == 200
DefaultIterations == 8

VARIABLES
    nodes,            \* input: the node list (ids, in list order)
    edges,            \* input: the edge list (<<source, target>>, in list order)
    iterations,       \* input: the sweep budget
    node_spacing,     \* input
    layer_separation, \* input
    hashOf,           \* the process: value of the built-in hash() for each id
    callNo,           \* the process: number of the running call (1 or 2)
    first,            \* the process: what call 1 returned (<<>> until then)
    pc,               \* position in compute_layout_positions
    children,         \* defaultdict(list): id -> child ids, in edge order
    parents,          \* defaultdict(list): id -> parent ids, in edge order
    in_degree,        \* assign_layers: remaining in-degree per id
    layers,           \* assign_layers: id -> layer (partial until the fallback)
    queue,            \* assign_layers: the deque
    dequeued,         \* assign_layers: the ids popleft() has returned so far
    nodes_by_layer,   \* layer -> ids of the layer, in node list order
    node_orders,      \* id -> order position in its layer
    iteration,        \* barycenter_ordering: sweeps completed
    layer_idx,        \* barycenter_ordering: index into layer_numbers
    positions,        \* id -> <<x, y>>
    metrics,          \* the metrics record
    records,          \* the caller's node dicts, in list order: field -> value
    applied,          \* what apply_layout_to_nodes returned (<<>> until then)
    other             \* the frame of a second thread's call while it is suspended

vars == <<nodes, edges, iterations, node_spacing, layer_separation, hashOf,
          callNo, first, pc, children, parents, in_degree, layers, queue,
          dequeued, nodes_by_layer, node_orders, iteration, layer_idx,
          positions, metrics, records, applied, other>>

\* what lies outside the running call: the caller's node dicts, the list
\* apply_layout_to_nodes hands back, and the frame of a suspended thread
caller == <<records, applied, other>>

\* no second thread
NoFrame == [pc |-> "none"]

\* ----------------------------------------------------------------- helpers
Max(a, b) == IF a >= b THEN a ELSE b

Range(s) == {s[i] : i \in DOMAIN s}

EmptyMap == [x \in {} |-> 0]

\* the function f restricted to S, written out entry by entry
Tabulate(f, S) == [k \in S |-> f[k]] @@ EmptyMap

\* dict[k] = v
Put(f, k, v) == (k :> v) @@ f

\* dict.get(k, d)
Get(f, k, d) == IF k \in DOMAIN f THEN f[k] ELSE d

RECURSIVE SumSeq(_)
SumSeq(s) == IF s = <<>> THEN 0 ELSE Head(s) + SumSeq(Tail(s))

\* sorted(set of integers) as a sequence
RECURSIVE SortedSet(_)
SortedSet(S) ==
    IF S = {} THEN <<>>
    ELSE LET m == CHOOSE x \in S : \A y \in S : x <= y
         IN <<m>> \o SortedSet(S \ {m})

\* sorted(list of ids): ascending, duplicates kept
RECURSIVE InsertSorted(_, _)
InsertSorted(x, s) ==
    IF s = <<>> THEN <<x>>
    ELSE IF x <= Head(s) THEN <<x>> \o s
    ELSE <<Head(s)>> \o InsertSorted(x, Tail(s))

RECURSIVE SortedIds(_)
SortedIds(s) == IF s = <<>> THEN <<>> ELSE InsertSorted(Head(s), SortedIds(Tail(s)))

\* Python's comparison of two tuples of ids
RECURSIVE TupleLT(_, _)
TupleLT(a, b) ==
    IF b = <<>> THEN FALSE
    ELSE IF a = <<>> THEN TRUE
    ELSE IF Head(a) # Head(b) THEN Head(a) < Head(b)
    ELSE TupleLT(Tail(a), Tail(b))

\* exact comparison of two keys <<num, den>> (den = 0 is +inf)
KeyLT(p, q) ==
    IF p[2] = 0 THEN FALSE
    ELSE IF q[2] = 0 THEN TRUE
    ELSE p[1] * q[2] < q[1] * p[2]

KeyEQ(p, q) == ~KeyLT(p, q) /\ ~KeyLT(q, p)

\* ------------------------------------------------------------ assign_layers
\* node_ids = {node['id'] for node in nodes}
NodeIds(ns) == Range(ns)

\* variant of IncludedEdges: only the source is looked up in node_ids
IncludedEdgesSourceOnly(ns, es) ==
    SelectSeq(es, LAMBDA e : e[1] \in NodeIds(ns))

\* the edges that pass "src in node_ids and tgt in node_ids"
IncludedEdges(ns, es) ==
    SelectSeq(es, LAMBDA e : e[1] \in NodeIds(ns) /\ e[2] \in NodeIds(ns))

\* children[src].append(tgt) for every included edge; the ids of the node
\* list that got no child are listed with [], which is what the defaultdict
\* (and .get(id, [])) answers for them
BuildChildren(ns, es) ==
    LET inc  == IncludedEdges(ns, es)
        keys == NodeIds(ns) \cup {inc[i][1] : i \in DOMAIN inc}
    IN Tabulate([n \in keys |->
                    LET out == SelectSeq(inc, LAMBDA e : e[1] = n)
                    IN [i \in 1..Len(out) |-> out[i][2]]], keys)

\* parents[tgt].append(src)
BuildParents(ns, es) ==
    LET inc  == IncludedEdges(ns, es)
        keys == NodeIds(ns) \cup {inc[i][2] : i \in DOMAIN inc}
    IN Tabulate([n \in keys |->
                    LET into == SelectSeq(inc, LAMBDA e : e[2] = n)
                    IN [i \in 1..Len(into) |-> into[i][1]]], keys)

\* in_degree[tgt] += 1 per included edge; every other node gets 0
BuildInDegree(ns, es) ==
    LET par == BuildParents(ns, es)
    IN Tabulate([n \in DOMAIN par |-> Len(par[n])], DOMAIN par)

\* the seeding loop: sources get layer 0 and enter the queue in list order
SeedSources(ns, deg) ==
    [layers    |-> Tabulate([n \in NodeIds(ns) |-> 0], {m \in NodeIds(ns) : deg[m] = 0}),
     in_degree |-> deg,
     queue     |-> SelectSeq(ns, LAMBDA n : deg[n] = 0)]

\* variant of VisitChildren: the child is put level with its parent
\* (current_layer instead of current_layer + 1)
RECURSIVE VisitChildrenSameLayer(_, _, _)
VisitChildrenSameLayer(st, kids, current_layer) ==
    IF kids = <<>> THEN st
    ELSE LET child_id    == Head(kids)
             child_layer == Max(Get(st.layers, child_id, 0), current_layer)
             deg         == Get(st.in_degree, child_id, 0) - 1
             st2 == [layers    |-> Put(st.layers, child_id, child_layer),
                     in_degree |-> Put(st.in_degree, child_id, deg),
                     queue     |-> IF deg = 0 THEN Append(st.queue, child_id)
                                   ELSE st.queue]
         IN VisitChildrenSameLayer(st2, Tail(kids), current_layer)

\* variant of VisitChildren: a child keeps the first layer it was given
\* (no max with current_layer + 1)
RECURSIVE VisitChildrenFirstLayer(_, _, _)
VisitChildrenFirstLayer(st, kids, current_layer) ==
    IF kids = <<>> THEN st
    ELSE LET child_id    == Head(kids)
             child_layer == Get(st.layers, child_id, current_layer + 1)
             deg         == Get(st.in_degree, child_id, 0) - 1
             st2 == [layers    |-> Put(st.layers, child_id, child_layer),
                     in_degree |-> Put(st.in_degree, child_id, deg),
                     queue     |-> IF deg = 0 THEN Append(st.queue, child_id)
                                   ELSE st.queue]
         IN VisitChildrenFirstLayer(st2, Tail(kids), current_layer)

\* variant of VisitChildren: a visited child is enqueued whatever its
\* remaining in-degree
RECURSIVE VisitChildrenRequeue(_, _, _)
VisitChildrenRequeue(st, kids, current_layer) ==
    IF kids = <<>> THEN st
    ELSE LET child_id    == Head(kids)
             child_layer == Max(Get(st.layers, child_id, 0), current_layer + 1)
             deg         == Get(st.in_degree, child_id, 0) - 1
             st2 == [layers    |-> Put(st.layers, child_id, child_layer),
                     in_degree |-> Put(st.in_degree, child_id, deg),
                     queue     |-> Append(st.queue, child_id)]
         IN VisitChildrenRequeue(st2, Tail(kids), current_layer)

\* variant of VisitChildren: the child is put two layers below its parent
\* (current_layer + 2)
RECURSIVE VisitChildrenSkipLayer(_, _, _)
VisitChildrenSkipLayer(st, kids, current_layer) ==
    IF kids = <<>> THEN st
    ELSE LET child_id    == Head(kids)
             child_layer == Max(Get(st.layers, child_id, 0), current_layer + 2)
             deg         == Get(st.in_degree, child_id, 0) - 1
             st2 == [layers    |-> Put(st.layers, child_id, child_layer),
                     in_degree |-> Put(st.in_degree, child_id, deg),
                     queue     |-> IF deg = 0 THEN Append(st.queue, child_id)
                                   ELSE st.queue]
         IN VisitChildrenSkipLayer(st2, Tail(kids), current_layer)

\* the inner loop over the children of the dequeued node
RECURSIVE VisitChildren(_, _, _)
VisitChildren(st, kids, current_layer) ==
    IF kids = <<>> THEN st
    ELSE LET child_id    == Head(kids)
             child_layer == Max(Get(st.layers, child_id, 0), current_layer + 1)
             deg         == Get(st.in_degree, child_id, 0) - 1
             st2 == [layers    |-> Put(st.layers, child_id, child_layer),
                     in_degree |-> Put(st.in_degree, child_id, deg),
                     queue     |-> IF deg = 0 THEN Append(st.queue, child_id)
                                   ELSE st.queue]
         IN VisitChildren(st2, Tail(kids), current_layer)

\* one turn of "while queue": popleft, then visit the children
DequeueStep(st, kids) ==
    LET node_id == Head(st.queue)
    IN VisitChildren([st EXCEPT !.queue = Tail(st.queue)],
                     Get(kids, node_id, <<>>), st.layers[node_id])

RECURSIVE RunQueue(_, _)
RunQueue(st, kids) ==
    IF st.queue = <<>> THEN st ELSE RunQueue(DequeueStep(st, kids), kids)

\* variant of FallbackLayers: the final loop is missing
FallbackLayersSkipped(ns, lay) == lay

\* variant of FallbackLayers: a node without a layer gets layer 1
FallbackLayersOne(ns, lay) ==
    Tabulate([n \in NodeIds(ns) \cup DOMAIN lay |-> Get(lay, n, 1)],
             NodeIds(ns) \cup DOMAIN lay)

\* the final loop: a node without a layer gets layer 0
FallbackLayers(ns, lay) ==
    Tabulate([n \in NodeIds(ns) \cup DOMAIN lay |-> Get(lay, n, 0)],
             NodeIds(ns) \cup DOMAIN lay)

assign_layers(ns, es) ==
    FallbackLayers(ns,
        RunQueue(SeedSources(ns, BuildInDegree(ns, es)), BuildChildren(ns, es)).layers)

\* -------------------------------------------------------- compute_barycenter
\* float(hash(node_id) % HASH_FALLBACK_RANGE) / HASH_FALLBACK_RANGE
HashFallback(node_id, hash) ==
    <<hash[node_id] % HASH_FALLBACK_RANGE, HASH_FALLBACK_RANGE>>

\* variant of compute_barycenter: the fallback is salted with the number of the
\* running call instead of depending on the id alone
compute_barycenter_salted(node_id, layer_nodes, neighbors, orders, hash) ==
    LET salted == [n \in DOMAIN hash |->
                     hash[n] + callNo * (HASH_FALLBACK_RANGE \div 2)]
    IN IF neighbors = <<>> THEN HashFallback(node_id, salted)
       ELSE LET known == SelectSeq(neighbors, LAMBDA n : n \in DOMAIN orders)
                pos   == [i \in 1..Len(known) |-> orders[known[i]]]
            IN IF pos = <<>> THEN HashFallback(node_id, salted)
               ELSE <<SumSeq(pos), Len(pos)>>

\* variant of compute_barycenter: every node gets the hash fallback, whatever
\* its neighbours
compute_barycenter_by_hash(node_id, layer_nodes, neighbors, orders, hash) ==
    HashFallback(node_id, hash)

\* layer_nodes is accepted and never read, as in the code
compute_barycenter(node_id, layer_nodes, neighbors, orders, hash) ==
    IF neighbors = <<>> THEN HashFallback(node_id, hash)
    ELSE LET known == SelectSeq(neighbors, LAMBDA n : n \in DOMAIN orders)
             pos   == [i \in 1..Len(known) |-> orders[known[i]]]
         IN IF pos = <<>> THEN HashFallback(node_id, hash)
            ELSE <<SumSeq(pos), Len(pos)>>

\* --------------------------------------------- order_bottom_layer_by_support
\* the group key ('orphan',): the id 0 stands for the string 'orphan'
OrphanKey == <<0>>

Inf == <<1, 0>>

\* tuple(sorted(parent_ids)), or the orphan key for a node without parents
GroupKey(parent_ids) ==
    IF parent_ids = <<>> THEN OrphanKey ELSE SortedIds(parent_ids)

\* mean of the parents' orders, one term per entry of the key
GroupPosition(group_key, parent_orders) ==
    IF group_key = OrphanKey THEN Inf
    ELSE LET known == SelectSeq(group_key, LAMBDA p : p \in DOMAIN parent_orders)
             pp    == [i \in 1..Len(known) |-> Get(parent_orders, known[i], 0)]
         IN IF pp # <<>> THEN <<SumSeq(pp), Len(pp)>> ELSE <<0, 1>>

\* variant of order_bottom_layer_by_support: current_order starts again at 0
\* for every group
order_bottom_layer_restarting(bottom_layer_nodes, par, parent_orders) ==
    LET key(n) == GroupKey(Get(par, n, <<>>))
    IN Tabulate([n \in Range(bottom_layer_nodes) |->
                    Cardinality({m \in Range(bottom_layer_nodes) :
                                    key(m) = key(n) /\ m < n})],
                Range(bottom_layer_nodes))

\* Groups sorted by (position, key), members of a group sorted by id, orders
\* handed out along the concatenation: the order of a node is the number of
\* bottom nodes that come before it in that total order.
order_bottom_layer_by_support(bottom_layer_nodes, par, parent_orders) ==
    LET key(n) == GroupKey(Get(par, n, <<>>))
        gp(n)  == GroupPosition(key(n), parent_orders)
        Before(m, n) ==
            \/ KeyLT(gp(m), gp(n))
            \/ KeyEQ(gp(m), gp(n)) /\ TupleLT(key(m), key(n))
            \/ KeyEQ(gp(m), gp(n)) /\ key(m) = key(n) /\ m < n
    IN Tabulate([n \in Range(bottom_layer_nodes) |->
                    Cardinality({m \in Range(bottom_layer_nodes) : Before(m, n)})],
                Range(bottom_layer_nodes))

\* ------------------------------------------------------- barycenter_ordering
\* layer_numbers = sorted(nodes_by_layer.keys())
LayerNumbers(nbl) == SortedSet(DOMAIN nbl)

\* an initial order that keeps each layer in the order of its list
InitOrdersUnsorted(nbl) ==
    Tabulate([n \in UNION {Range(nbl[l]) : l \in DOMAIN nbl} |->
                LET l == CHOOSE k \in DOMAIN nbl : n \in Range(nbl[k])
                IN (CHOOSE j \in 1..Len(nbl[l]) : nbl[l][j] = n) - 1],
             UNION {Range(nbl[l]) : l \in DOMAIN nbl})

\* initial order: each layer sorted by id
InitOrders(nbl) ==
    Tabulate([n \in UNION {Range(nbl[l]) : l \in DOMAIN nbl} |->
                LET l == CHOOSE k \in DOMAIN nbl : n \in Range(nbl[k])
                IN Cardinality({m \in Range(nbl[l]) : m < n})],
             UNION {Range(nbl[l]) : l \in DOMAIN nbl})

\* sort the layer by (barycenter, node_id) and renumber it
ReorderLayer(layer_nodes, adjacent_nodes, adj, orders, hash) ==
    LET bc == Tabulate([n \in Range(layer_nodes) |->
                 compute_barycenter(n, adjacent_nodes, Get(adj, n, <<>>), orders, hash)],
                 Range(layer_nodes))
        Before(m, n) ==
            \/ KeyLT(bc[m], bc[n])
            \/ KeyEQ(bc[m], bc[n]) /\ m < n
    IN Tabulate([n \in DOMAIN orders |->
                    IF n \in Range(layer_nodes)
                    THEN Cardinality({m \in Range(layer_nodes) : Before(m, n)})
                    ELSE orders[n]],
                DOMAIN orders)

\* body of the top-down loop for one layer_idx (0-based, as in the code)
TopDownLayer(orders, nbl, par, idx, hash) ==
    LET layer       == LayerNumbers(nbl)[idx + 1]
        layer_nodes == nbl[layer]
    IN IF idx = 0 \/ Len(layer_nodes) <= 1 THEN orders
       ELSE ReorderLayer(layer_nodes, Get(nbl, layer - 1, <<>>), par, orders, hash)

\* body of the bottom-up loop for one layer_idx
BottomUpLayer(orders, nbl, kids, idx, hash) ==
    LET layer       == LayerNumbers(nbl)[idx + 1]
        layer_nodes == nbl[layer]
    IN IF idx = Len(LayerNumbers(nbl)) - 1 \/ Len(layer_nodes) <= 1 THEN orders
       ELSE ReorderLayer(layer_nodes, Get(nbl, layer + 1, <<>>), kids, orders, hash)

RECURSIVE TopDownSweep(_, _, _, _, _)
TopDownSweep(orders, nbl, par, idx, hash) ==
    IF idx >= Len(LayerNumbers(nbl)) THEN orders
    ELSE TopDownSweep(TopDownLayer(orders, nbl, par, idx, hash), nbl, par, idx + 1, hash)

RECURSIVE BottomUpSweep(_, _, _, _, _)
BottomUpSweep(orders, nbl, kids, idx, hash) ==
    IF idx < 0 THEN orders
    ELSE BottomUpSweep(BottomUpLayer(orders, nbl, kids, idx, hash), nbl, kids, idx - 1, hash)

RECURSIVE Sweeps(_, _, _, _, _, _)
Sweeps(orders, nbl, kids, par, remaining, hash) ==
    IF remaining <= 0 THEN orders
    ELSE Sweeps(
           BottomUpSweep(TopDownSweep(orders, nbl, par, 0, hash),
                         nbl, kids, Len(LayerNumbers(nbl)) - 1, hash),
           nbl, kids, par, remaining - 1, hash)

\* variant of RegroupBottom: the test for a layer above the deepest one is
\* missing
RegroupBottomUnguarded(orders, nbl, par) ==
    LET layer_numbers == LayerNumbers(nbl)
    IN IF layer_numbers = <<>> THEN orders
       ELSE LET bottom_layer_nodes == nbl[layer_numbers[Len(layer_numbers)]]
            IN IF Len(bottom_layer_nodes) > 1
               THEN order_bottom_layer_by_support(bottom_layer_nodes, par, orders)
                       @@ orders
               ELSE orders

\* the block after the sweeps: regroup the deepest layer
RegroupBottom(orders, nbl, par) ==
    LET layer_numbers == LayerNumbers(nbl)
    IN IF layer_numbers = <<>> THEN orders
       ELSE LET bottom_layer_nodes == nbl[layer_numbers[Len(layer_numbers)]]
            IN IF Len(bottom_layer_nodes) > 1 /\ Len(layer_numbers) > 1
               THEN LET bottom_layer_orders ==
                          order_bottom_layer_by_support(bottom_layer_nodes, par, orders)
                    IN bottom_layer_orders @@ orders
               ELSE orders

barycenter_ordering(nbl, kids, par, iters, hash) ==
    RegroupBottom(Sweeps(InitOrders(nbl), nbl, kids, par, iters, hash), nbl, par)

\* ------------------------------------------------------ count_edge_crossings
\* a count that takes two edges to cross when "source left of source" and
\* "target left of target" differ in truth value
count_edge_crossings_by_truth_value(nbl, es, orders, node_layers) ==
    LET kept == SelectSeq(es, LAMBDA e :
                    /\ e[1] \in DOMAIN node_layers
                    /\ e[2] \in DOMAIN node_layers
                    /\ node_layers[e[1]] < node_layers[e[2]])
        bucket(e) == <<node_layers[e[1]], node_layers[e[2]]>>
        o(n) == Get(orders, n, 0)
    IN Cardinality({p \in (1..Len(kept)) \X (1..Len(kept)) :
            /\ p[1] < p[2]
            /\ bucket(kept[p[1]]) = bucket(kept[p[2]])
            /\ (o(kept[p[1]][1]) < o(kept[p[2]][1]))
                   # (o(kept[p[1]][2]) < o(kept[p[2]][2]))})

\* a count that compares every two downward edges, whatever layers they join
count_edge_crossings_unbucketed(nbl, es, orders, node_layers) ==
    LET kept == SelectSeq(es, LAMBDA e :
                    /\ e[1] \in DOMAIN node_layers
                    /\ e[2] \in DOMAIN node_layers
                    /\ node_layers[e[1]] < node_layers[e[2]])
        o(n) == Get(orders, n, 0)
        cross(a, b) ==
            \/ o(a[1]) < o(b[1]) /\ o(a[2]) > o(b[2])
            \/ o(a[1]) > o(b[1]) /\ o(a[2]) < o(b[2])
    IN Cardinality({p \in (1..Len(kept)) \X (1..Len(kept)) :
            p[1] < p[2] /\ cross(kept[p[1]], kept[p[2]])})

count_edge_crossings(nbl, es, orders, node_layers) ==
    LET kept == SelectSeq(es, LAMBDA e :
                    /\ e[1] \in DOMAIN node_layers
                    /\ e[2] \in DOMAIN node_layers
                    /\ node_layers[e[1]] < node_layers[e[2]])
        bucket(e) == <<node_layers[e[1]], node_layers[e[2]]>>
        o(n) == Get(orders, n, 0)
        cross(a, b) ==
            \/ o(a[1]) < o(b[1]) /\ o(a[2]) > o(b[2])
            \/ o(a[1]) > o(b[1]) /\ o(a[2]) < o(b[2])
    IN Cardinality({p \in (1..Len(kept)) \X (1..Len(kept)) :
            /\ p[1] < p[2]
            /\ bucket(kept[p[1]]) = bucket(kept[p[2]])
            /\ cross(kept[p[1]], kept[p[2]])})

\* -------------------------------------------------- compute_layout_positions
\* nodes_by_layer[layer].append(node['id'])
GroupByLayer(ns, node_layers) ==
    Tabulate([l \in {node_layers[n] : n \in NodeIds(ns)} |->
                SelectSeq(ns, LAMBDA n : node_layers[n] = l)],
             {node_layers[n] : n \in NodeIds(ns)})

\* index of node_list[k] in sorted(node_list, key=node_orders[n]) (a stable sort)
SortedIndex(node_list, k, orders) ==
    Cardinality({j \in 1..Len(node_list) :
        \/ orders[node_list[j]] < orders[node_list[k]]
        \/ orders[node_list[j]] = orders[node_list[k]] /\ j < k})

\* -(total_width // 2): the half width is floored, then negated
StartXNegatedFloor(layer_width, spacing) ==
    LET total_width == (layer_width - 1) * spacing
    IN IF layer_width > 1 THEN 0 - (total_width \div 2) ELSE 0

\* -total_width // 2 if layer_width > 1 else 0
StartX(layer_width, spacing) ==
    LET total_width == (layer_width - 1) * spacing
    IN IF layer_width > 1 THEN (0 - total_width) \div 2 ELSE 0

\* positions taken from a node's place in nodes_by_layer[layer], not from
\* its place in sorted_nodes
ComputePositionsUnsorted(nbl, orders, spacing, separation) ==
    Tabulate([n \in UNION {Range(nbl[l]) : l \in DOMAIN nbl} |->
        LET layer     == CHOOSE l \in DOMAIN nbl : n \in Range(nbl[l])
            node_list == nbl[layer]
            k         == CHOOSE j \in 1..Len(node_list) : node_list[j] = n
        IN <<StartX(Len(node_list), spacing) + (k - 1) * spacing, layer * separation>>],
        UNION {Range(nbl[l]) : l \in DOMAIN nbl})

\* positions that put every layer on the line y = 0
ComputePositionsFlat(nbl, orders, spacing, separation) ==
    Tabulate([n \in UNION {Range(nbl[l]) : l \in DOMAIN nbl} |->
        LET layer     == CHOOSE l \in DOMAIN nbl : n \in Range(nbl[l])
            node_list == nbl[layer]
            k         == CHOOSE j \in 1..Len(node_list) : node_list[j] = n
            i         == SortedIndex(node_list, k, orders)
        IN <<StartX(Len(node_list), spacing) + i * spacing, 0>>],
        UNION {Range(nbl[l]) : l \in DOMAIN nbl})

\* positions[node_id] = (start_x + i * node_spacing, layer * layer_separation)
ComputePositions(nbl, orders, spacing, separation) ==
    Tabulate([n \in UNION {Range(nbl[l]) : l \in DOMAIN nbl} |->
        LET layer     == CHOOSE l \in DOMAIN nbl : n \in Range(nbl[l])
            node_list == nbl[layer]
            k         == CHOOSE j \in 1..Len(node_list) : node_list[j] = n
            i         == SortedIndex(node_list, k, orders)
        IN <<StartX(Len(node_list), spacing) + i * spacing, layer * separation>>],
        UNION {Range(nbl[l]) : l \in DOMAIN nbl})

MaxLayerWidth(nbl) ==
    LET widths == {Len(nbl[l]) : l \in DOMAIN nbl}
    IN IF widths = {} THEN 0 ELSE CHOOSE w \in widths : \A v \in widths : v <= w

\* metrics whose crossings are those of the initial, sorted-by-id order
ComputeMetricsInitialOrder(ns, es, nbl, orders, node_layers) ==
    [crossings       |-> count_edge_crossings(nbl, es, InitOrders(nbl), node_layers),
     layers          |-> Cardinality(DOMAIN nbl),
     max_layer_width |-> MaxLayerWidth(nbl),
     total_nodes     |-> Len(ns),
     total_edges     |-> Len(es)]

ComputeMetrics(ns, es, nbl, orders, node_layers) ==
    [crossings       |-> count_edge_crossings(nbl, es, orders, node_layers),
     layers          |-> Cardinality(DOMAIN nbl),
     max_layer_width |-> MaxLayerWidth(nbl),
     total_nodes     |-> Len(ns),
     total_edges     |-> Len(es)]

\* what "if not nodes" returns
EmptyResult ==
    [positions   |-> EmptyMap,
     metrics     |-> [crossings |-> 0, layers |-> 0, max_layer_width |-> 0],
     node_layers |-> EmptyMap]

\* the whole call, as one function of its arguments and of the process's hash()
compute_layout_positions(ns, es, spacing, separation, iters, hash) ==
    IF ns = <<>> THEN EmptyResult
    ELSE LET node_layers == assign_layers(ns, es)
             nbl         == GroupByLayer(ns, node_layers)
             orders      == barycenter_ordering(nbl, BuildChildren(ns, es),
                                                BuildParents(ns, es), iters, hash)
         IN [positions   |-> ComputePositions(nbl, orders, spacing, separation),
             metrics     |-> ComputeMetrics(ns, es, nbl, orders, node_layers),
             node_layers |-> node_layers]

\* ------------------------------------- scripts/demo: compute_naive_crossings
\* the crossings of the order that sorts every layer by id
compute_naive_crossings(ns, es) ==
    LET node_layers == assign_layers(ns, es)
        nbl         == GroupByLayer(ns, node_layers)
    IN count_edge_crossings(nbl, es, InitOrders(nbl), node_layers)

\* ------------------------------------------------------------------ inputs
Ids == 1..MaxNodes

\* node lists <<1, ..., k>>: ids are unique; an id above k names no node
NodeLists == {[i \in 1..k |-> i] : k \in 0..MaxNodes}

\* every edge list of at most n edges over the ids S, in every order, with
\* self-loops, repeated edges, cycles and (for short node lists) dangling ends
EdgeLists(S, n) == UNION {[1..k -> S \X S] : k \in 0..n}

\* hash(id) % HASH_FALLBACK_RANGE as one process may see it
HashValues == {0, HASH_FALLBACK_RANGE \div 2}

HashFunctions(ns) == [NodeIds(ns) -> HashValues]

\* node dicts that hold nothing but their id
NodeRecords(ns) == [i \in 1..Len(ns) |-> [id |-> ns[i]]]

\* ------------------------------------------------------------------- actions
\* the locals of a call that has not started; the caller holds the node dicts
Idle ==
    /\ records = NodeRecords(nodes) /\ applied = <<>> /\ other = NoFrame
    /\ children = EmptyMap /\ parents = EmptyMap /\ in_degree = EmptyMap
    /\ layers = EmptyMap /\ queue = <<>> /\ dequeued = <<>>
    /\ nodes_by_layer = EmptyMap /\ node_orders = EmptyMap
    /\ iteration = 0 /\ layer_idx = 0
    /\ positions = EmptyMap /\ metrics = EmptyMap

\* a process that is about to make its first call, with the default spacing
Start ==
    /\ iterations \in 0..MaxIterations
    /\ node_spacing = DefaultNodeSpacing
    /\ layer_separation = DefaultLayerSeparation
    /\ callNo = 1
    /\ first = <<>>
    /\ pc = "call"
    /\ Idle

\* every small input: any node count up to MaxNodes, any edge list
Init ==
    /\ nodes \in NodeLists
    /\ edges \in EdgeLists(Ids, MaxEdges)
    /\ hashOf \in HashFunctions(nodes)
    /\ Start

PairLT(a, b) == a[1] < b[1] \/ (a[1] = b[1] /\ a[2] < b[2])

\* simple directed graphs: SimpleNodes nodes, at most SimpleEdges edges, no
\* self-loop, no repeated edge, no dangling edge (cycles allowed); the edge
\* list is in ascending order
SimpleEdgeLists ==
    LET S     == 1..SimpleNodes
        pairs == {e \in S \X S : e[1] # e[2]}
    IN UNION {{s \in [1..k -> pairs] : \A i \in 1..(k - 1) : PairLT(s[i], s[i + 1])}
                : k \in 0..SimpleEdges}

InitSimple ==
    /\ nodes = [i \in 1..SimpleNodes |-> i]
    /\ edges \in SimpleEdgeLists
    /\ hashOf \in HashFunctions(nodes)
    /\ Start

\* the same hash value for every id
ConstantHashes(ns) == {[n \in NodeIds(ns) |-> v] : v \in HashValues}

\* fan-in graphs: FanParents parents 1..FanParents, FanLeaves leaves after
\* them; every leaf has 1..FanMult incoming edges, each from some parent, the
\* same parent possibly more than once
FanChoices ==
    UNION {{c \in [1..k -> 1..FanParents] : \A i \in 1..(k - 1) : c[i] <= c[i + 1]}
             : k \in 1..FanMult}

RECURSIVE FanEdges(_, _)
\* the edge list of the leaves leaf..last, leaf by leaf
FanEdges(choice, leaf) ==
    IF leaf > FanParents + FanLeaves THEN <<>>
    ELSE [i \in 1..Len(choice[leaf]) |-> <<choice[leaf][i], leaf>>]
            \o FanEdges(choice, leaf + 1)

InitFanIn ==
    /\ nodes = [i \in 1..(FanParents + FanLeaves) |-> i]
    /\ \E choice \in [(FanParents + 1)..(FanParents + FanLeaves) -> FanChoices] :
          edges = FanEdges(choice, FanParents + 1)
    /\ hashOf \in ConstantHashes(nodes)
    /\ Start

inputs == <<nodes, edges, iterations, node_spacing, layer_separation, hashOf>>

\* compute_layout_positions is entered: the empty list returns at once;
\* otherwise assign_layers builds its adjacency and in-degrees and seeds the queue
Enter ==
    /\ pc = "call"
    /\ IF nodes = <<>>
       THEN /\ pc' = "done"
            /\ positions' = EmptyResult.positions
            /\ metrics' = EmptyResult.metrics
            /\ layers' = EmptyResult.node_layers
            /\ UNCHANGED <<children, parents, in_degree, queue>>
       ELSE LET st == SeedSources(nodes, BuildInDegree(nodes, edges))
            IN /\ pc' = "queue"
               /\ children' = BuildChildren(nodes, edges)
               /\ parents' = BuildParents(nodes, edges)
               /\ in_degree' = st.in_degree
               /\ layers' = st.layers
               /\ queue' = st.queue
               /\ UNCHANGED <<positions, metrics>>
    /\ UNCHANGED <<caller, inputs, callNo, first, dequeued, nodes_by_layer, node_orders,
                   iteration, layer_idx>>

\* one turn of the while loop of assign_layers
Dequeue ==
    /\ pc = "queue"
    /\ queue # <<>>
    /\ LET st == DequeueStep([layers |-> layers, in_degree |-> in_degree,
                              queue |-> queue], children)
       IN /\ layers' = st.layers
          /\ in_degree' = st.in_degree
          /\ queue' = st.queue
    /\ dequeued' = Append(dequeued, Head(queue))
    /\ UNCHANGED <<caller, inputs, callNo, first, pc, children, parents, nodes_by_layer,
                   node_orders, iteration, layer_idx, positions, metrics>>

\* the queue is empty: the fallback loop runs and assign_layers returns
Fallback ==
    /\ pc = "queue"
    /\ queue = <<>>
    /\ layers' = FallbackLayers(nodes, layers)
    /\ pc' = "group"
    /\ UNCHANGED <<caller, inputs, callNo, first, children, parents, in_degree, queue,
                   dequeued, nodes_by_layer, node_orders, iteration, layer_idx,
                   positions, metrics>>

\* nodes are grouped by layer (node_layers[id] raises KeyError for an id
\* without a layer), the adjacency is rebuilt, barycenter_ordering starts
GroupAndInit ==
    /\ pc = "group"
    /\ IF NodeIds(nodes) \subseteq DOMAIN layers
       THEN /\ nodes_by_layer' = GroupByLayer(nodes, layers)
            /\ children' = BuildChildren(nodes, edges)
            /\ parents' = BuildParents(nodes, edges)
            /\ node_orders' = InitOrders(nodes_by_layer')
            /\ pc' = IF iterations > 0 THEN "top_down" ELSE "regroup"
       ELSE /\ pc' = "KeyError"
            /\ UNCHANGED <<nodes_by_layer, children, parents, node_orders>>
    /\ iteration' = 0
    /\ layer_idx' = 0
    /\ UNCHANGED <<caller, inputs, callNo, first, in_degree, layers, queue, dequeued,
                   positions, metrics>>

\* one layer of the top-down pass
TopDown ==
    /\ pc = "top_down"
    /\ node_orders' = TopDownLayer(node_orders, nodes_by_layer, parents, layer_idx, hashOf)
    /\ IF layer_idx + 1 < Len(LayerNumbers(nodes_by_layer))
       THEN /\ layer_idx' = layer_idx + 1
            /\ pc' = pc
       ELSE /\ layer_idx' = Len(LayerNumbers(nodes_by_layer)) - 1
            /\ pc' = "bottom_up"
    /\ UNCHANGED <<caller, inputs, callNo, first, children, parents, in_degree, layers,
                   queue, dequeued, nodes_by_layer, iteration, positions, metrics>>

\* one layer of the bottom-up pass; after layer_idx 0 the iteration is over
BottomUp ==
    /\ pc = "bottom_up"
    /\ node_orders' = BottomUpLayer(node_orders, nodes_by_layer, children, layer_idx, hashOf)
    /\ IF layer_idx > 0
       THEN /\ layer_idx' = layer_idx - 1
            /\ UNCHANGED <<pc, iteration>>
       ELSE /\ layer_idx' = 0
            /\ iteration' = iteration + 1
            /\ pc' = IF iteration + 1 < iterations THEN "top_down" ELSE "regroup"
    /\ UNCHANGED <<caller, inputs, callNo, first, children, parents, in_degree, layers,
                   queue, dequeued, nodes_by_layer, positions, metrics>>

\* the regroup of the deepest layer; barycenter_ordering returns
Regroup ==
    /\ pc = "regroup"
    /\ node_orders' = RegroupBottom(node_orders, nodes_by_layer, parents)
    /\ pc' = "positions"
    /\ UNCHANGED <<caller, inputs, callNo, first, children, parents, in_degree, layers,
                   queue, dequeued, nodes_by_layer, iteration, layer_idx,
                   positions, metrics>>

\* a return that first writes each position into the caller's node dict
FinishWritingBack ==
    /\ pc = "positions"
    /\ IF NodeIds(nodes) \subseteq DOMAIN node_orders
       THEN /\ positions' = ComputePositions(nodes_by_layer, node_orders,
                                             node_spacing, layer_separation)
            /\ metrics' = ComputeMetrics(nodes, edges, nodes_by_layer, node_orders, layers)
            /\ records' = [i \in 1..Len(records) |->
                              ("y" :> positions'[records[i].id][2])
                                  @@ ("x" :> positions'[records[i].id][1])
                                  @@ records[i]]
            /\ pc' = "done"
       ELSE /\ pc' = "KeyError"
            /\ UNCHANGED <<positions, metrics, records>>
    /\ UNCHANGED <<applied, other, inputs, callNo, first, children, parents, in_degree,
                   layers, queue, dequeued, nodes_by_layer, node_orders,
                   iteration, layer_idx>>

\* positions and metrics are computed and the call returns (node_orders[n]
\* raises KeyError for a node without an order)
Finish ==
    /\ pc = "positions"
    /\ IF NodeIds(nodes) \subseteq DOMAIN node_orders
       THEN /\ positions' = ComputePositions(nodes_by_layer, node_orders,
                                             node_spacing, layer_separation)
            /\ metrics' = ComputeMetrics(nodes, edges, nodes_by_layer, node_orders, layers)
            /\ pc' = "done"
       ELSE /\ pc' = "KeyError"
            /\ UNCHANGED <<positions, metrics>>
    /\ UNCHANGED <<caller, inputs, callNo, first, children, parents, in_degree, layers,
                   queue, dequeued, nodes_by_layer, node_orders, iteration, layer_idx>>

\* what the call returned
Returned == [positions |-> positions, metrics |-> metrics, node_layers |-> layers]

\* the caller keeps the result and calls again, in the same process, with the
\* same arguments; every local of the new call starts afresh
CallAgain ==
    /\ pc = "done"
    /\ callNo = 1
    /\ first' = Returned
    /\ callNo' = 2
    /\ pc' = "call"
    /\ children' = EmptyMap /\ parents' = EmptyMap /\ in_degree' = EmptyMap
    /\ layers' = EmptyMap /\ queue' = <<>> /\ dequeued' = <<>>
    /\ nodes_by_layer' = EmptyMap /\ node_orders' = EmptyMap
    /\ iteration' = 0 /\ layer_idx' = 0
    /\ positions' = EmptyMap /\ metrics' = EmptyMap
    /\ UNCHANGED <<caller, inputs>>

Next ==
    \/ Enter
    \/ Dequeue
    \/ Fallback
    \/ GroupAndInit
    \/ TopDown
    \/ BottomUp
    \/ Regroup
    \/ Finish
    \/ CallAgain

Spec == Init /\ [][Next]_vars

SpecSimple == InitSimple /\ [][Next]_vars

SpecFanIn == InitFanIn /\ [][Next]_vars

\* ================================================================== claims
\* the included edges as a set
EdgeSet == Range(IncludedEdges(nodes, edges))

RECURSIVE ReachIn(_, _)
\* the ids reached from the set S by a path of 1..k included edges
ReachIn(S, k) ==
    IF k = 0 THEN {}
    ELSE LET step == {e[2] : e \in {d \in EdgeSet : d[1] \in S}}
         IN step \cup ReachIn(step, k - 1)

\* no cycle and no self-loop among the included edges
Acyclic == \A n \in NodeIds(nodes) : n \notin ReachIn({n}, Len(nodes))

\* assign_layers has returned to a call with a non-empty node list
LayersReturned == nodes # <<>> /\ pc \notin {"call", "queue"}

\* the order map exists: barycenter_ordering has initialised it
OrdersExist == pc \in {"top_down", "bottom_up", "regroup", "positions", "done"} /\ nodes # <<>>

\* C1: on an acyclic graph the returned layer map puts the source of every
\* included edge in a strictly smaller layer than its target.
C1_LayeringInvariant ==
    (LayersReturned /\ Acyclic) =>
        \A e \in EdgeSet : layers[e[1]] < layers[e[2]]

\* an acyclic graph with a chain of two edges and the shortcut edge beside it
C1_Witness ==
    /\ LayersReturned /\ Acyclic
    /\ \E a, b, c \in NodeIds(nodes) :
          /\ {<<a, b>>, <<b, c>>, <<a, c>>} \subseteq EdgeSet
          /\ layers[c] = 2

C6_OrderBijection ==
    OrdersExist =>
        \A l \in DOMAIN nodes_by_layer :
            /\ {node_orders[n] : n \in Range(nodes_by_layer[l])}
                   = 0..(Len(nodes_by_layer[l]) - 1)
            /\ \A m, n \in Range(nodes_by_layer[l]) :
                   node_orders[m] = node_orders[n] => m = n

\* after the regroup of a deepest layer of two nodes that fall in different
\* groups, with a sweep done before it
C6_Witness ==
    /\ pc = "positions" /\ iteration >= 1
    /\ Cardinality(DOMAIN nodes_by_layer) >= 2
    /\ LET bottom == nodes_by_layer[LayerNumbers(nodes_by_layer)[Cardinality(DOMAIN nodes_by_layer)]]
       IN /\ Len(bottom) >= 2
          /\ \E m, n \in Range(bottom) : GroupKey(parents[m]) # GroupKey(parents[n])

\* C7: no input makes the call raise, and what it returns has exactly the
\* input node ids as keys of the positions and of the layer map, every layer
\* being non-negative.
C7_NoFailure ==
    /\ pc # "KeyError"
    /\ pc = "done" =>
          /\ DOMAIN positions = NodeIds(nodes)
          /\ DOMAIN layers = NodeIds(nodes)
          /\ \A n \in NodeIds(nodes) : layers[n] >= 0

\* a returned call whose edge list has a self-loop, a dangling edge and a cycle
C7_Witness ==
    /\ pc = "done" /\ nodes # <<>>
    /\ \E i \in DOMAIN edges : edges[i][1] = edges[i][2] /\ edges[i][1] \in NodeIds(nodes)
    /\ \E i \in DOMAIN edges : edges[i][2] \notin NodeIds(nodes)
    /\ \E n \in NodeIds(nodes) : n \notin Range(dequeued)

\* the parents of n that the queue dequeued
DequeuedParents(n) == {p \in Range(Get(parents, n, <<>>)) : p \in Range(dequeued)}

\* no included edge has source = target
NoSelfLoop == \A e \in EdgeSet : e[1] # e[2]

\* C10 (as stated): every node the queue never dequeues ends in layer 0.
\* Stated for graphs without self-loops, where a node is never dequeued only
\* because it lies on, or downstream of, a cycle of two or more nodes.
C10_NeverDequeuedInLayerZero ==
    (LayersReturned /\ NoSelfLoop) =>
        \A n \in NodeIds(nodes) : n \notin Range(dequeued) => layers[n] = 0

\* C10 (amended): a node the queue never dequeues ends in layer 0 when none of
\* its parents was dequeued, and otherwise one layer below the deepest of its
\* dequeued parents.
C10_NeverDequeuedLayer ==
    LayersReturned =>
        \A n \in NodeIds(nodes) :
            n \notin Range(dequeued) =>
                /\ DequeuedParents(n) = {} => layers[n] = 0
                /\ DequeuedParents(n) # {} =>
                       /\ \A p \in DequeuedParents(n) : layers[n] >= layers[p] + 1
                       /\ \E p \in DequeuedParents(n) : layers[n] = layers[p] + 1

\* a cycle below a source: one node of the cycle kept the layer its dequeued
\* parent gave it, the other fell back to layer 0
C10_Witness ==
    /\ LayersReturned
    /\ \E m, n \in NodeIds(nodes) :
          /\ m \notin Range(dequeued) /\ n \notin Range(dequeued)
          /\ DequeuedParents(m) # {} /\ layers[m] >= 1
          /\ DequeuedParents(n) = {} /\ layers[n] = 0

\* the list s with e put in after its first i entries
InsertAt(s, i, e) == SubSeq(s, 1, i) \o <<e>> \o SubSeq(s, i + 1, Len(s))

\* C5 (as stated): the returned positions are the same whatever values the
\* runtime's hash() takes on the ids.  Stated for acyclic graphs, where no
\* self-loop or cycle handling plays a part.
C5_HashIndependent ==
    (pc = "done" /\ Acyclic) =>
        \A h \in HashFunctions(nodes) :
            compute_layout_positions(nodes, edges, node_spacing, layer_separation,
                                     iterations, h).positions = positions

\* C8 (as stated): putting a self-loop on a node into the edge list, at any
\* place, leaves the layer map of assign_layers unchanged.
C8_SelfLoopNoEffect ==
    pc = "group" =>
        \A n \in NodeIds(nodes) : \A i \in 0..Len(edges) :
            assign_layers(nodes, InsertAt(edges, i, <<n, n>>)) = layers

\* the edges over the ids 1..MaxNodes+1 with an end that is no node
DanglingEdges ==
    {e \in (1..(MaxNodes + 1)) \X (1..(MaxNodes + 1)) :
        e[1] \notin NodeIds(nodes) \/ e[2] \notin NodeIds(nodes)}

\* C9: putting a dangling edge into the edge list, at any place, leaves the
\* returned layer map, positions and crossing count unchanged.  Compared
\* at the return of the first call (the second call repeats its inputs).
C9_DanglingIgnored ==
    (pc = "done" /\ callNo = 1 /\ nodes # <<>>) =>
        \A e \in DanglingEdges : \A i \in 0..Len(edges) :
            LET r == compute_layout_positions(nodes, InsertAt(edges, i, e), node_spacing,
                                              layer_separation, iterations, hashOf)
            IN /\ r.node_layers = layers
               /\ r.positions = positions
               /\ r.metrics.crossings = metrics.crossings

\* a returned layout of two layers, with an edge between real nodes, to which
\* dangling edges from a node and to a node can be added
C9_Witness ==
    /\ pc = "done" /\ Len(nodes) >= 2
    /\ Cardinality(DOMAIN nodes_by_layer) >= 2
    /\ \E e \in DanglingEdges : e[1] \in NodeIds(nodes)
    /\ \E e \in DanglingEdges : e[2] \in NodeIds(nodes)

\* C2 (as stated): the crossing count of the returned order is at most that
\* of the order that sorts every layer by id.
C2_CrossingsNotWorse ==
    (pc = "done" /\ nodes # <<>>) =>
        metrics.crossings <= compute_naive_crossings(nodes, edges)

\* the deepest layer
BottomLayerNodes == nodes_by_layer[LayerNumbers(nodes_by_layer)[Cardinality(DOMAIN nodes_by_layer)]]

\* the set of parent ids of n
ParentIdSet(n) == Range(Get(parents, n, <<>>))

\* C3 (as stated): after the regroup, the nodes of the deepest layer that have
\* the same set of parent ids have consecutive orders.
C3_LeafGroupsContiguous ==
    (/\ pc \in {"positions", "done"} /\ nodes # <<>>
     /\ Cardinality(DOMAIN nodes_by_layer) > 1
     /\ Len(BottomLayerNodes) > 1) =>
        \A a, b, c \in Range(BottomLayerNodes) :
            (/\ ParentIdSet(a) = ParentIdSet(c)
             /\ node_orders[a] < node_orders[b]
             /\ node_orders[b] < node_orders[c]) => ParentIdSet(b) = ParentIdSet(a)

\* the keys of the metrics record of a non-empty graph
MetricsKeys == {"crossings", "layers", "max_layer_width", "total_nodes", "total_edges"}

\* C11 (as stated): the empty node list returns empty positions, an empty
\* layer map and metrics holding each of the five keys with value 0.
C11_EmptyGraphMetrics ==
    (pc = "done" /\ nodes = <<>>) =>
        /\ positions = EmptyMap
        /\ layers = EmptyMap
        /\ \A k \in MetricsKeys : k \in DOMAIN metrics /\ metrics[k] = 0

\* ------------------------------------ count_edge_crossings called on its own
\* (as tests/test_graph_layout.py does: a layer map and an order map built by
\* the caller).  CrossNodes ids have a layer, id CrossNodes + 1 has none.
\* Ids are numbered layer by layer and the edge list is in ascending order,
\* repeated edges included; the order map is any per-layer bijection.
CrossInputs ==
    /\ nodes = [i \in 1..CrossNodes |-> i]
    /\ edges \in {es \in EdgeLists(1..(CrossNodes + 1), CrossEdges) :
                     \A i \in 1..(Len(es) - 1) : ~PairLT(es[i + 1], es[i])}
    /\ layers \in {l \in [1..CrossNodes -> 0..CrossLayers] :
                      \A i \in 1..(CrossNodes - 1) : l[i] <= l[i + 1]}
    /\ nodes_by_layer = GroupByLayer(nodes, layers)
    /\ node_orders \in {o \in [1..CrossNodes -> 0..(CrossNodes - 1)] :
                          \A l \in DOMAIN nodes_by_layer :
                              {o[n] : n \in Range(nodes_by_layer[l])}
                                  = 0..(Len(nodes_by_layer[l]) - 1)}

InitCrossings ==
    /\ CrossInputs
    /\ iterations = 0
    /\ node_spacing = DefaultNodeSpacing
    /\ layer_separation = DefaultLayerSeparation
    /\ hashOf = [n \in NodeIds(nodes) |-> 0]
    /\ callNo = 1
    /\ first = <<>>
    /\ pc = "count"
    /\ records = NodeRecords(nodes) /\ applied = <<>> /\ other = NoFrame
    /\ children = EmptyMap /\ parents = EmptyMap /\ in_degree = EmptyMap
    /\ queue = <<>> /\ dequeued = <<>>
    /\ iteration = 0 /\ layer_idx = 0
    /\ positions = EmptyMap /\ metrics = EmptyMap

\* count_edge_crossings runs and returns the count
CountCrossings ==
    /\ pc = "count"
    /\ metrics' = [crossings |-> count_edge_crossings(nodes_by_layer, edges,
                                                      node_orders, layers)]
    /\ pc' = "counted"
    /\ UNCHANGED <<caller, inputs, callNo, first, children, parents, in_degree, layers,
                   queue, dequeued, nodes_by_layer, node_orders, iteration,
                   layer_idx, positions>>

SpecCrossings == InitCrossings /\ [][CountCrossings]_vars

\* edge i of the edge list has both endpoints in the layer map and goes to a
\* deeper layer
GoesDown(i) ==
    /\ edges[i][1] \in DOMAIN layers
    /\ edges[i][2] \in DOMAIN layers
    /\ layers[edges[i][1]] < layers[edges[i][2]]

\* edges i and j join the same pair of layers
SameLayerPair(i, j) ==
    /\ layers[edges[i][1]] = layers[edges[j][1]]
    /\ layers[edges[i][2]] = layers[edges[j][2]]

\* the pairs i < j of downward edges of one layer pair that satisfy Crosses
CrossingPairs(Crosses(_, _, _, _)) ==
    {p \in (1..Len(edges)) \X (1..Len(edges)) :
        /\ p[1] < p[2]
        /\ GoesDown(p[1]) /\ GoesDown(p[2])
        /\ SameLayerPair(p[1], p[2])
        /\ Crosses(node_orders[edges[p[1]][1]], node_orders[edges[p[2]][1]],
                   node_orders[edges[p[1]][2]], node_orders[edges[p[2]][2]])}

\* a crossing count has been returned
CountReturned == pc = "counted" \/ (pc = "done" /\ nodes # <<>>)

\* C12 (as stated): the count is the number of pairs of downward edges of one
\* layer pair for which order(u1) < order(u2) and order(v1) < order(v2) differ
\* in truth value.
C12_CrossingsByTruthValue ==
    CountReturned =>
        metrics.crossings =
            Cardinality(CrossingPairs(LAMBDA u1, u2, v1, v2 : (u1 < u2) # (v1 < v2)))

\* C12 (amended): the count is the number of pairs of downward edges of one
\* layer pair whose sources are in one strict order and whose targets are in
\* the opposite strict order; two edges that share a source or a target do
\* not cross.
C12_CrossingsStrictlyOpposite ==
    CountReturned =>
        metrics.crossings =
            Cardinality(CrossingPairs(LAMBDA u1, u2, v1, v2 :
                (u1 < u2 /\ v1 > v2) \/ (u1 > u2 /\ v1 < v2)))

\* a count of at least one crossing, returned for an edge list that also holds
\* two edges sharing a source, and an edge that is not counted
C12_Witness ==
    /\ pc = "counted"
    /\ metrics.crossings >= 1
    /\ \E i, j \in 1..Len(edges) :
          i < j /\ GoesDown(i) /\ GoesDown(j) /\ edges[i][1] = edges[j][1]
                /\ edges[i][2] # edges[j][2]

\* ------------------------------------------- calls with a caller's spacing
\* every node count up to SpacedNodes, every ascending list of up to
\* SpacedEdges edges between distinct ids, every node_spacing of
\* 1..MaxSpacing and the default, every layer_separation of 1..MaxSeparation
\* and the default
InitSpaced ==
    /\ nodes \in {[i \in 1..k |-> i] : k \in 0..SpacedNodes}
    /\ edges \in UNION {{s \in [1..k -> {e \in (1..SpacedNodes) \X (1..SpacedNodes) : e[1] # e[2]}] :
                            \A i \in 1..(k - 1) : PairLT(s[i], s[i + 1])}
                          : k \in 0..SpacedEdges}
    /\ hashOf \in ConstantHashes(nodes)
    /\ iterations \in 0..MaxIterations
    /\ node_spacing \in (1..MaxSpacing) \cup {DefaultNodeSpacing}
    /\ layer_separation \in (1..MaxSeparation) \cup {DefaultLayerSeparation}
    /\ callNo = 1
    /\ first = <<>>
    /\ pc = "call"
    /\ Idle

SpecSpaced == InitSpaced /\ [][Next]_vars

\* the call has returned the layout of a non-empty graph
LayoutReturned == pc = "done" /\ nodes # <<>>

\* the node of layer l at order index 0
FirstOfLayer(l) == CHOOSE n \in Range(nodes_by_layer[l]) : node_orders[n] = 0

\* C13 (as stated): in a layer of count > 1 nodes the node at order index 0
\* has x = -floor((count - 1) * node_spacing / 2); a single node has x = 0.
C13_StartXNegatedFloor ==
    LayoutReturned =>
        \A l \in DOMAIN nodes_by_layer :
            LET count == Len(nodes_by_layer[l])
                width == (count - 1) * node_spacing
            IN positions[FirstOfLayer(l)][1] =
                   IF count > 1 THEN 0 - (width \div 2) ELSE 0

\* C13 (amended): in a layer of count > 1 nodes the node at order index 0 has
\* x = floor(-((count - 1) * node_spacing) / 2), which is
\* -ceil((count - 1) * node_spacing / 2); a single node has x = 0.
C13_StartXFloorOfNegated ==
    LayoutReturned =>
        \A l \in DOMAIN nodes_by_layer :
            LET count == Len(nodes_by_layer[l])
                width == (count - 1) * node_spacing
            IN positions[FirstOfLayer(l)][1] =
                   IF count > 1 THEN 0 - ((width + 1) \div 2) ELSE 0

\* a returned layout with a layer of odd total width and a single-node layer
C13_Witness ==
    /\ LayoutReturned
    /\ \E l \in DOMAIN nodes_by_layer :
          /\ Len(nodes_by_layer[l]) > 1
          /\ ((Len(nodes_by_layer[l]) - 1) * node_spacing) % 2 = 1
          /\ 2 * positions[FirstOfLayer(l)][1]
                 = 0 - ((Len(nodes_by_layer[l]) - 1) * node_spacing) - 1
    /\ \E l \in DOMAIN nodes_by_layer : Len(nodes_by_layer[l]) = 1

\* C14: every node has y = layer * layer_separation; two nodes of one layer at
\* order indices i < j have x values (j - i) * node_spacing apart; with
\* layer_separation > 0 a node of a deeper layer has a strictly larger y.
C14_PositionGrid ==
    LayoutReturned =>
        /\ \A n \in NodeIds(nodes) : positions[n][2] = layers[n] * layer_separation
        /\ \A m, n \in NodeIds(nodes) :
              (layers[m] = layers[n] /\ node_orders[m] < node_orders[n]) =>
                  positions[n][1] - positions[m][1]
                      = (node_orders[n] - node_orders[m]) * node_spacing
        /\ layer_separation > 0 =>
              \A m, n \in NodeIds(nodes) :
                  layers[m] < layers[n] => positions[m][2] < positions[n][2]

\* a returned layout of two layers whose deeper layer holds two nodes that the
\* ordering has put in the reverse of their order in the node list
C14_Witness ==
    /\ LayoutReturned
    /\ node_spacing > 1
    /\ \E m, n \in NodeIds(nodes) :
          /\ m < n /\ layers[m] = layers[n] /\ layers[m] >= 1
          /\ node_orders[n] < node_orders[m]
          /\ positions[m][1] - positions[n][1] = node_spacing
          /\ positions[m][2] > 0

\* ---------------------------------------------------- apply_layout_to_nodes
\* a copy that is given x = 0, y = 0 when its id has no position
apply_layout_to_nodes_defaulting(recs, pos) ==
    [i \in 1..Len(recs) |->
        LET node == recs[i]
        IN IF node.id \in DOMAIN pos
           THEN ("y" :> pos[node.id][2]) @@ ("x" :> pos[node.id][1]) @@ node
           ELSE ("y" :> 0) @@ ("x" :> 0) @@ node]

\* result = [node.copy() with x, y set from positions[node['id']] if present]
apply_layout_to_nodes(recs, pos) ==
    [i \in 1..Len(recs) |->
        LET node_copy == recs[i]
        IN IF recs[i].id \in DOMAIN pos
           THEN ("y" :> pos[recs[i].id][2]) @@ ("x" :> pos[recs[i].id][1]) @@ node_copy
           ELSE node_copy]

\* the node dicts a caller may hand over: an id, with or without a label,
\* with or without x and y left by an earlier layout
ApplyRecords ==
    UNION {[fields -> 1..ApplyNodes] :
              fields \in {{"id"}, {"id", "label"}, {"id", "x", "y"},
                          {"id", "label", "x", "y"}}}

\* position maps over some of the ids 1..ApplyNodes + 1
ApplyPositions ==
    UNION {[S -> {<<0, 0>>, <<-125, 200>>}] : S \in SUBSET (1..(ApplyNodes + 1))}

InitApply ==
    /\ records \in UNION {[1..k -> ApplyRecords] : k \in 0..ApplyNodes}
    /\ positions \in ApplyPositions
    /\ applied = <<>> /\ other = NoFrame
    /\ nodes = [i \in 1..Len(records) |-> records[i].id]
    /\ edges = <<>>
    /\ iterations = 0
    /\ node_spacing = DefaultNodeSpacing
    /\ layer_separation = DefaultLayerSeparation
    /\ hashOf = [n \in NodeIds(nodes) |-> 0]
    /\ callNo = 1
    /\ first = <<>>
    /\ pc = "apply"
    /\ children = EmptyMap /\ parents = EmptyMap /\ in_degree = EmptyMap
    /\ layers = EmptyMap /\ queue = <<>> /\ dequeued = <<>>
    /\ nodes_by_layer = EmptyMap /\ node_orders = EmptyMap
    /\ iteration = 0 /\ layer_idx = 0
    /\ metrics = EmptyMap

\* a version that sets x and y on the caller's dicts and returns them
ApplyLayoutInPlace ==
    /\ pc = "apply"
    /\ applied' = apply_layout_to_nodes(records, positions)
    /\ records' = applied'
    /\ pc' = "applied"
    /\ UNCHANGED <<other, inputs, callNo, first, children, parents, in_degree, layers,
                   queue, dequeued, nodes_by_layer, node_orders, iteration,
                   layer_idx, positions, metrics>>

\* apply_layout_to_nodes runs: every dict is copied, the copies get x and y,
\* the list of copies is returned; the caller's dicts are not written
ApplyLayout ==
    /\ pc = "apply"
    /\ applied' = apply_layout_to_nodes(records, positions)
    /\ records' = records
    /\ pc' = "applied"
    /\ UNCHANGED <<other, inputs, callNo, first, children, parents, in_degree, layers,
                   queue, dequeued, nodes_by_layer, node_orders, iteration,
                   layer_idx, positions, metrics>>

SpecApply == InitApply /\ [][ApplyLayout]_vars

\* C15: apply_layout_to_nodes leaves its arguments as they were: the node
\* list, every node dict (no x or y is added to it) and the positions map.
C15_ApplyLeavesArguments ==
    [][pc' = "applied" => (records' = records /\ positions' = positions)]_vars

\* the call has returned a dict with x and y while the caller's dict has none
C15_Witness ==
    /\ pc = "applied"
    /\ \E i \in 1..Len(records) :
          /\ "x" \notin DOMAIN records[i] /\ "y" \notin DOMAIN records[i]
          /\ "x" \in DOMAIN applied[i] /\ "y" \in DOMAIN applied[i]

\* C16 (as stated): the result has the length of the input; result i has every
\* field of input i with the same value, plus x and y equal to positions[id]
\* when the id has a position, and no added field when it has none.
C16_ApplyKeepsEveryField ==
    pc = "applied" =>
        /\ Len(applied) = Len(records)
        /\ \A i \in 1..Len(records) :
              /\ \A f \in DOMAIN records[i] :
                    f \in DOMAIN applied[i] /\ applied[i][f] = records[i][f]
              /\ IF records[i].id \in DOMAIN positions
                 THEN /\ DOMAIN applied[i] = DOMAIN records[i] \cup {"x", "y"}
                      /\ applied[i].x = positions[records[i].id][1]
                      /\ applied[i].y = positions[records[i].id][2]
                 ELSE DOMAIN applied[i] = DOMAIN records[i]

\* C16 (amended): the result has the length of the input; when the id of
\* input i has a position, result i has every field of input i other than x
\* and y with the same value, and x and y equal to positions[id], replacing
\* any x and y the input had; when it has none, result i equals input i.
C16_ApplyKeepsOtherFields ==
    pc = "applied" =>
        /\ Len(applied) = Len(records)
        /\ \A i \in 1..Len(records) :
              IF records[i].id \in DOMAIN positions
              THEN /\ DOMAIN applied[i] = DOMAIN records[i] \cup {"x", "y"}
                   /\ \A f \in DOMAIN records[i] \ {"x", "y"} :
                         applied[i][f] = records[i][f]
                   /\ applied[i].x = positions[records[i].id][1]
                   /\ applied[i].y = positions[records[i].id][2]
              ELSE applied[i] = records[i]

\* a returned list of two dicts: one got its position in place of the x and y
\* it came with and kept its label, the other has no position and came back
\* as it was
C16_Witness ==
    /\ pc = "applied"
    /\ Len(applied) = 2
    /\ \E i, j \in 1..2 :
          /\ records[i].id \in DOMAIN positions
          /\ DOMAIN records[i] = {"id", "label", "x", "y"}
          /\ applied[i].x # records[i].x
          /\ applied[i].label = records[i].label
          /\ records[j].id \notin DOMAIN positions
          /\ applied[j] = records[j]

\* the nodes the layer map puts in layer l
NodesOfLayer(l) == {n \in NodeIds(nodes) : layers[n] = l}

\* C17: for a non-empty graph, metrics.layers is the number of distinct layers
\* of the layer map, max_layer_width the size of the largest layer,
\* total_nodes and total_edges the lengths of the two input lists, crossings
\* the crossings of the final order; the layer sizes sum to total_nodes.
C17_MetricsRecord ==
    LayoutReturned =>
        LET used == {layers[n] : n \in NodeIds(nodes)}
        IN /\ DOMAIN metrics = MetricsKeys
           /\ metrics.layers = Cardinality(used)
           /\ \E l \in used : metrics.max_layer_width = Cardinality(NodesOfLayer(l))
           /\ \A l \in used : Cardinality(NodesOfLayer(l)) <= metrics.max_layer_width
           /\ metrics.total_nodes = Len(nodes)
           /\ metrics.total_edges = Len(edges)
           /\ metrics.crossings =
                  Cardinality(CrossingPairs(LAMBDA u1, u2, v1, v2 :
                      (u1 < u2 /\ v1 > v2) \/ (u1 > u2 /\ v1 < v2)))
           /\ SumSeq([i \in 1..Len(LayerNumbers(nodes_by_layer)) |->
                        Len(nodes_by_layer[LayerNumbers(nodes_by_layer)[i]])])
                  = metrics.total_nodes

\* a returned layout of two layers of two nodes whose final order has a
\* crossing, for an edge list that holds an upward edge as well
C17_Witness ==
    /\ LayoutReturned
    /\ metrics.layers = 2
    /\ metrics.max_layer_width = 2
    /\ metrics.crossings >= 1
    /\ \E e \in EdgeSet : layers[e[1]] >= layers[e[2]]

\* C18: no step of compute_layout_positions changes the node list, the edge
\* list, or a node dict of the caller.
C18_InputsNotMutated ==
    [][nodes' = nodes /\ edges' = edges /\ records' = records]_vars

\* two calls have run to their return on a graph with nodes and edges, and
\* the caller's dicts hold their ids and nothing else
C18_Witness ==
    /\ pc = "done" /\ callNo = 2
    /\ Len(nodes) >= 2 /\ edges # <<>>
    /\ DOMAIN positions = NodeIds(nodes)
    /\ \A i \in 1..Len(records) : DOMAIN records[i] = {"id"}

\* ------------------------------------------ calls with lists in any order
\* every ordering of the node list <<1, ..., k>>
ShuffledNodeLists ==
    UNION {{p \in [1..k -> 1..k] : \A i, j \in 1..k : p[i] = p[j] => i = j}
             : k \in 0..MaxNodes}

InitShuffled ==
    /\ nodes \in ShuffledNodeLists
    /\ edges \in EdgeLists(Ids, MaxEdges)
    /\ hashOf \in HashFunctions(nodes)
    /\ Start

\* one call, from entry to return
NextOnce ==
    \/ Enter
    \/ Dequeue
    \/ Fallback
    \/ GroupAndInit
    \/ TopDown
    \/ BottomUp
    \/ Regroup
    \/ Finish

SpecShuffled == InitShuffled /\ [][NextOnce]_vars

RECURSIVE InsertEdge(_, _)
InsertEdge(e, s) ==
    IF s = <<>> THEN <<e>>
    ELSE IF ~PairLT(Head(s), e) THEN <<e>> \o s
    ELSE <<Head(s)>> \o InsertEdge(e, Tail(s))

RECURSIVE AscendingEdges(_)
\* the edges of the list s in ascending order, repeated edges kept
AscendingEdges(s) == IF s = <<>> THEN <<>> ELSE InsertEdge(Head(s), AscendingEdges(Tail(s)))

\* C19: the call returns the same positions, metrics and layer map for every
\* ordering of the node list and of the edge list: what it returned equals
\* what it returns for the two lists put in ascending order.
C19_OrderIndependent ==
    pc = "done" =>
        Returned = compute_layout_positions(SortedIds(nodes), AscendingEdges(edges),
                                            node_spacing, layer_separation,
                                            iterations, hashOf)

\* a returned layout of at least two layers for a node list and an edge list
\* that are both out of ascending order
C19_Witness ==
    /\ pc = "done"
    /\ nodes # SortedIds(nodes)
    /\ edges # AscendingEdges(edges)
    /\ metrics.layers >= 2
    /\ metrics.max_layer_width >= 2

\* ----------------------------------------------------------- the diamond
\* A -> B, A -> C, B -> D, C -> D with A, B, C, D = 1, 2, 3, 4
DiamondEdges == {<<1, 2>>, <<1, 3>>, <<2, 4>>, <<3, 4>>}

\* the diamond, its edge list in any order, laid out with the default
\* spacing, separation and iterations, in a process with any hash values
InitDiamond ==
    /\ nodes = <<1, 2, 3, 4>>
    /\ edges \in {s \in [1..4 -> DiamondEdges] : Range(s) = DiamondEdges}
    /\ hashOf \in HashFunctions(nodes)
    /\ iterations = DefaultIterations
    /\ node_spacing = DefaultNodeSpacing
    /\ layer_separation = DefaultLayerSeparation
    /\ callNo = 1
    /\ first = <<>>
    /\ pc = "call"
    /\ Idle

SpecDiamond == InitDiamond /\ [][Next]_vars

\* C20: the diamond with the default configuration gets layers 0, 1, 1, 2,
\* no crossing, 3 layers of width at most 2, B and C at distinct x on y = 200,
\* A on y = 0 and D on y = 400.
C20_Diamond ==
    pc = "done" =>
        /\ layers = <<0, 1, 1, 2>>
        /\ metrics.crossings = 0
        /\ metrics.layers = 3
        /\ metrics.max_layer_width = 2
        /\ positions[2][1] # positions[3][1]
        /\ positions[2][2] = 200 /\ positions[3][2] = 200
        /\ positions[1][2] = 0
        /\ positions[4][2] = 400

\* the diamond's layout has been returned after all the default sweeps
C20_Witness ==
    /\ pc = "done"
    /\ edges = <<<<1, 2>>, <<1, 3>>, <<2, 4>>, <<3, 4>>>>
    /\ iteration = DefaultIterations
    /\ positions = <<<<0, 0>>, <<-125, 200>>, <<125, 200>>, <<0, 400>>>>

\* ------------------------------------------------- the premise scenario
\* tests/test_premise_grouping.py: Claim1, Claim2, P1, ..., P5 = 1, 2, 3, ..., 7
\* (the integer order is the lexicographic order of the names), edges
\* P1, P2, P3 -> Claim1 and P4, P5 -> Claim2
PremiseEdges == <<<<3, 1>>, <<4, 1>>, <<5, 1>>, <<6, 2>>, <<7, 2>>>>

\* the scenario with its edge list as the test writes it or reversed, laid
\* out with the default configuration in a process with any hash values
InitPremises ==
    /\ nodes = <<1, 2, 3, 4, 5, 6, 7>>
    /\ edges \in {PremiseEdges, [i \in 1..5 |-> PremiseEdges[6 - i]]}
    /\ hashOf \in HashFunctions(nodes)
    /\ iterations = DefaultIterations
    /\ node_spacing = DefaultNodeSpacing
    /\ layer_separation = DefaultLayerSeparation
    /\ callNo = 1
    /\ first = <<>>
    /\ pc = "call"
    /\ Idle

SpecPremises == InitPremises /\ [][Next]_vars

\* the x positions of the nodes S
XsOf(S) == {positions[n][1] : n \in S}

\* the largest and the smallest element of a set of integers
MaxOf(S) == CHOOSE x \in S : \A y \in S : y <= x

MinOf(S) == CHOOSE x \in S : \A y \in S : x <= y

\* C21: in the premise scenario with the default spacing the x positions of
\* P1, P2, P3 span 2 * 250, those of P4, P5 span 250, and one block lies
\* wholly to the left of the other.
C21_PremiseBlocks ==
    pc = "done" =>
        LET a == XsOf({3, 4, 5})
            b == XsOf({6, 7})
        IN /\ Cardinality(a) = 3 /\ Cardinality(b) = 2
           /\ MaxOf(a) - MinOf(a) = 2 * 250
           /\ MaxOf(b) - MinOf(b) = 1 * 250
           /\ MaxOf(a) < MinOf(b) \/ MaxOf(b) < MinOf(a)

\* the scenario's layout has been returned after the default sweeps, with the
\* premises in one layer of five
C21_Witness ==
    /\ pc = "done"
    /\ edges = PremiseEdges
    /\ iteration = DefaultIterations
    /\ metrics.max_layer_width = 5
    /\ XsOf({3, 4, 5}) = {-500, -250, 0}
    /\ XsOf({6, 7}) = {250, 500}

\* ------------------------------------------------------- two threads
\* Two threads of one process each call compute_layout_positions on a graph of
\* their own.  Every name the function and its callees assign is a local of
\* the call, so a thread's call is its frame: its arguments and its locals.
\* The process shares the module constant HASH_FALLBACK_RANGE and hash().

\* the frame of the running call
Running ==
    [nodes |-> nodes, edges |-> edges, iterations |-> iterations,
     node_spacing |-> node_spacing, layer_separation |-> layer_separation,
     records |-> records, pc |-> pc,
     children |-> children, parents |-> parents, in_degree |-> in_degree,
     layers |-> layers, queue |-> queue, dequeued |-> dequeued,
     nodes_by_layer |-> nodes_by_layer, node_orders |-> node_orders,
     iteration |-> iteration, layer_idx |-> layer_idx,
     positions |-> positions, metrics |-> metrics]

\* the frame of a call that is about to start
NewFrame(ns, es, iters) ==
    [nodes |-> ns, edges |-> es, iterations |-> iters,
     node_spacing |-> DefaultNodeSpacing,
     layer_separation |-> DefaultLayerSeparation,
     records |-> NodeRecords(ns), pc |-> "call",
     children |-> EmptyMap, parents |-> EmptyMap, in_degree |-> EmptyMap,
     layers |-> EmptyMap, queue |-> <<>>, dequeued |-> <<>>,
     nodes_by_layer |-> EmptyMap, node_orders |-> EmptyMap,
     iteration |-> 0, layer_idx |-> 0,
     positions |-> EmptyMap, metrics |-> EmptyMap]

\* the graphs of the two threads: 1..ThreadNodes nodes, at most ThreadEdges
\* edges in ascending order, no self-loop (cycles allowed)
ThreadGraphs ==
    UNION {{[nodes |-> [i \in 1..k |-> i], edges |-> es] :
              es \in UNION {{s \in [1..m -> {e \in (1..k) \X (1..k) : e[1] # e[2]}] :
                               \A i \in 1..(m - 1) : PairLT(s[i], s[i + 1])}
                              : m \in 0..ThreadEdges}}
             : k \in 1..ThreadNodes}

InitThreads ==
    /\ \E g \in ThreadGraphs : nodes = g.nodes /\ edges = g.edges
    /\ \E g \in ThreadGraphs : other = NewFrame(g.nodes, g.edges, MaxIterations)
    /\ hashOf \in ConstantHashes([i \in 1..ThreadNodes |-> i])
    /\ iterations = MaxIterations
    /\ node_spacing = DefaultNodeSpacing
    /\ layer_separation = DefaultLayerSeparation
    /\ callNo = 1
    /\ first = <<>>
    /\ pc = "call"
    /\ records = NodeRecords(nodes) /\ applied = <<>>
    /\ children = EmptyMap /\ parents = EmptyMap /\ in_degree = EmptyMap
    /\ layers = EmptyMap /\ queue = <<>> /\ dequeued = <<>>
    /\ nodes_by_layer = EmptyMap /\ node_orders = EmptyMap
    /\ iteration = 0 /\ layer_idx = 0
    /\ positions = EmptyMap /\ metrics = EmptyMap

\* a switch that leaves the order map in place: the map is one object of the
\* module, used by both calls
SwitchSharingOrders ==
    /\ other.pc # "none"
    /\ other' = Running
    /\ nodes' = other.nodes /\ edges' = other.edges
    /\ iterations' = other.iterations
    /\ node_spacing' = other.node_spacing
    /\ layer_separation' = other.layer_separation
    /\ records' = other.records /\ pc' = other.pc
    /\ children' = other.children /\ parents' = other.parents
    /\ in_degree' = other.in_degree /\ layers' = other.layers
    /\ queue' = other.queue /\ dequeued' = other.dequeued
    /\ nodes_by_layer' = other.nodes_by_layer
    /\ node_orders' = node_orders
    /\ iteration' = other.iteration /\ layer_idx' = other.layer_idx
    /\ positions' = other.positions /\ metrics' = other.metrics
    /\ UNCHANGED <<hashOf, callNo, first, applied>>

\* the scheduler suspends the running thread and resumes the other one: the
\* running call's arguments and locals are set aside with its thread, the
\* other call's come back as it left them
Switch ==
    /\ other.pc # "none"
    /\ other' = Running
    /\ nodes' = other.nodes /\ edges' = other.edges
    /\ iterations' = other.iterations
    /\ node_spacing' = other.node_spacing
    /\ layer_separation' = other.layer_separation
    /\ records' = other.records /\ pc' = other.pc
    /\ children' = other.children /\ parents' = other.parents
    /\ in_degree' = other.in_degree /\ layers' = other.layers
    /\ queue' = other.queue /\ dequeued' = other.dequeued
    /\ nodes_by_layer' = other.nodes_by_layer
    /\ node_orders' = other.node_orders
    /\ iteration' = other.iteration /\ layer_idx' = other.layer_idx
    /\ positions' = other.positions /\ metrics' = other.metrics
    /\ UNCHANGED <<hashOf, callNo, first, applied>>

\* either thread takes the next step of its call
NextThreads ==
    \/ Enter
    \/ Dequeue
    \/ Fallback
    \/ GroupAndInit
    \/ TopDown
    \/ BottomUp
    \/ Regroup
    \/ Finish
    \/ Switch

SpecThreads == InitThreads /\ [][NextThreads]_vars

\* the call of frame f, run alone, raises KeyError
RaisesAlone(f) ==
    /\ f.nodes # <<>>
    /\ LET node_layers == assign_layers(f.nodes, f.edges)
       IN \/ ~(NodeIds(f.nodes) \subseteq DOMAIN node_layers)
          \/ ~(NodeIds(f.nodes) \subseteq DOMAIN
                 barycenter_ordering(GroupByLayer(f.nodes, node_layers),
                                     BuildChildren(f.nodes, f.edges),
                                     BuildParents(f.nodes, f.edges),
                                     f.iterations, hashOf))

\* the call of frame f has ended as it ends when run alone
EndsAsAlone(f) ==
    /\ f.pc = "done" =>
          [positions |-> f.positions, metrics |-> f.metrics,
           node_layers |-> f.layers]
             = compute_layout_positions(f.nodes, f.edges, f.node_spacing,
                                        f.layer_separation, f.iterations, hashOf)
    /\ f.pc = "KeyError" => RaisesAlone(f)

\* C22: two calls of compute_layout_positions on independent graphs, their
\* steps interleaved in any way, each return what they return when run alone.
C22_ThreadsIsolated == EndsAsAlone(Running) /\ EndsAsAlone(other)

\* one call has returned while the other, on a different graph of the same
\* size, is suspended in the middle of its sweep, and both graphs have an edge
C22_Witness ==
    /\ pc = "done"
    /\ other.pc = "bottom_up"
    /\ Len(nodes) = ThreadNodes /\ Len(other.nodes) = ThreadNodes
    /\ edges # <<>> /\ other.edges # <<>>
    /\ edges # other.edges
    /\ layers # other.layers

\* --------------------------------------------------- longest-path layering
\* the sources of the included edges that end at n
ParentSet(n) == {e[1] : e \in {d \in EdgeSet : d[2] = n}}

RECURSIVE LongestPathTo(_, _)
\* the number of edges on the longest path of at most k included edges that
\* ends at n
LongestPathTo(n, k) ==
    IF k = 0 \/ ParentSet(n) = {} THEN 0
    ELSE LET below == {LongestPathTo(p, k - 1) : p \in ParentSet(n)}
         IN 1 + CHOOSE d \in below : \A c \in below : c <= d

\* C23: on an acyclic graph assign_layers gives every node the number of edges
\* of the longest path that ends at it (0 for a node without incoming edge).
C23_LongestPathLayering ==
    (LayersReturned /\ Acyclic) =>
        \A n \in NodeIds(nodes) :
            n \in DOMAIN layers /\ layers[n] = LongestPathTo(n, Len(nodes))

\* an acyclic graph has been layered in which a node of layer 2 or deeper has
\* one parent two or more layers above it and another directly above it, next
\* to a node without any edge
C23_Witness ==
    /\ pc = "done"
    /\ Acyclic
    /\ \E n \in NodeIds(nodes) : \E p, q \in ParentSet(n) :
          /\ layers[n] >= 2
          /\ layers[p] = layers[n] - 1
          /\ layers[q] <= layers[n] - 2
    /\ \E n \in NodeIds(nodes) : \A e \in EdgeSet : e[1] # n /\ e[2] # n

\* ------------------------------------------------- graphs with long edges
\* DeepNodes nodes, at most DeepEdges distinct edges, each from a smaller to a
\* larger id (so the graph is acyclic), in ascending order
DeepEdgeLists ==
    LET S     == 1..DeepNodes
        pairs == {e \in S \X S : e[1] < e[2]}
    IN UNION {{s \in [1..k -> pairs] : \A i \in 1..(k - 1) : PairLT(s[i], s[i + 1])}
                : k \in 0..DeepEdges}

InitDeep ==
    /\ nodes = [i \in 1..DeepNodes |-> i]
    /\ edges \in DeepEdgeLists
    /\ hashOf \in ConstantHashes(nodes)
    /\ iterations = MaxIterations
    /\ node_spacing = DefaultNodeSpacing
    /\ layer_separation = DefaultLayerSeparation
    /\ callNo = 1
    /\ first = <<>>
    /\ pc = "call"
    /\ Idle

SpecDeep == InitDeep /\ [][Next]_vars

\* the layer the running pass is at, and whether the pass reorders it
SweptLayer == LayerNumbers(nodes_by_layer)[layer_idx + 1]

SweepReorders ==
    /\ Len(nodes_by_layer[SweptLayer]) > 1
    /\ pc = "top_down" => layer_idx # 0
    /\ pc = "bottom_up" => layer_idx # Len(LayerNumbers(nodes_by_layer)) - 1

\* the neighbours of n (parents in the top-down pass, children in the
\* bottom-up pass) that lie in the layer next to the swept one on that side
AdjacentNeighbors(n) ==
    LET adj  == IF pc = "top_down" THEN parents ELSE children
        next == IF pc = "top_down" THEN SweptLayer - 1 ELSE SweptLayer + 1
    IN SelectSeq(Get(adj, n, <<>>),
                 LAMBDA m : m \in Range(Get(nodes_by_layer, next, <<>>)))

\* the mean of the current orders of those neighbours, as <<sum, count>>
AdjacentMean(n) ==
    LET nb == AdjacentNeighbors(n)
    IN <<SumSeq([i \in 1..Len(nb) |-> node_orders[nb[i]]]), Len(nb)>>

\* C24: a pass sorts a layer by (key, id) where the key of a node with a
\* neighbour in the adjacent layer is the mean of the current orders of
\* exactly its neighbours in that layer: of two such nodes the one with the
\* smaller mean, or with the same mean and the smaller id, comes first.
C24_KeyFromAdjacentLayer ==
    [][(pc \in {"top_down", "bottom_up"} /\ SweepReorders) =>
          \A a, b \in Range(nodes_by_layer[SweptLayer]) :
              (/\ AdjacentNeighbors(a) # <<>>
               /\ AdjacentNeighbors(b) # <<>>
               /\ \/ KeyLT(AdjacentMean(a), AdjacentMean(b))
                  \/ KeyEQ(AdjacentMean(a), AdjacentMean(b)) /\ a < b)
                  => node_orders'[a] < node_orders'[b]]_vars

\* ------------------------------------------------------- the regroup step
\* the nodes of the deepest layer
DeepestLayerNodes ==
    LET layer_numbers == LayerNumbers(nodes_by_layer)
    IN nodes_by_layer[layer_numbers[Len(layer_numbers)]]

\* C25: the regroup changes the order only of nodes of the deepest layer, and
\* changes nothing when that layer has at most one node or the graph has a
\* single layer.
C25_RegroupFrame ==
    [][pc = "regroup" =>
          /\ DOMAIN node_orders' = DOMAIN node_orders
          /\ \A n \in DOMAIN node_orders :
                n \notin Range(DeepestLayerNodes) => node_orders'[n] = node_orders[n]
          /\ (Len(DeepestLayerNodes) <= 1 \/ Len(LayerNumbers(nodes_by_layer)) <= 1)
                => node_orders' = node_orders]_vars

\* the regroup has run and moved nodes of the deepest layer while a layer
\* above it holds two nodes
C25_Witness ==
    /\ pc = "positions"
    /\ node_orders # Sweeps(InitOrders(nodes_by_layer), nodes_by_layer,
                            children, parents, iterations, hashOf)
    /\ \E l \in DOMAIN nodes_by_layer :
          Len(nodes_by_layer[l]) = 2 /\ nodes_by_layer[l] # DeepestLayerNodes

\* ------------------------------------------- graphs with a node called orphan
\* Node ids are arbitrary strings, 'orphan' among them.  The id 0 stands for
\* the string 'orphan', the ids 1, 2, ... for strings that sort after it.
\* NamedNodes nodes 0..NamedNodes-1, at most NamedEdges distinct edges, no
\* self-loop, in ascending order.
NamedEdgeLists ==
    LET S     == 0..(NamedNodes - 1)
        pairs == {e \in S \X S : e[1] # e[2]}
    IN UNION {{s \in [1..k -> pairs] : \A i \in 1..(k - 1) : PairLT(s[i], s[i + 1])}
                : k \in 0..NamedEdges}

InitNamed ==
    /\ nodes = [i \in 1..NamedNodes |-> i - 1]
    /\ edges \in NamedEdgeLists
    /\ hashOf \in ConstantHashes(nodes)
    /\ Start

SpecNamed == InitNamed /\ [][Next]_vars

\* the regroup step calls order_bottom_layer_by_support
RegroupCalls ==
    /\ pc = "regroup"
    /\ Len(DeepestLayerNodes) > 1
    /\ Len(LayerNumbers(nodes_by_layer)) > 1

\* the parent ids of n as a sorted tuple, and the mean of their orders
ParentTuple(n) == SortedIds(Get(parents, n, <<>>))

ParentMean(n) ==
    LET t == ParentTuple(n)
    IN <<SumSeq([i \in 1..Len(t) |-> node_orders[t[i]]]), Len(t)>>

\* m comes before n in the concatenation of the groups: groups ascending by
\* (mean of the parents' orders, sorted parent-id tuple), the parentless group
\* last, members of a group ascending by id
GroupedBefore(m, n) ==
    IF ParentTuple(m) = ParentTuple(n) THEN m < n
    ELSE IF ParentTuple(m) = <<>> THEN FALSE
    ELSE IF ParentTuple(n) = <<>> THEN TRUE
    ELSE \/ KeyLT(ParentMean(m), ParentMean(n))
         \/ KeyEQ(ParentMean(m), ParentMean(n))
               /\ TupleLT(ParentTuple(m), ParentTuple(n))

\* C26: order_bottom_layer_by_support orders the nodes along the
\* concatenation of their parent groups sorted by (mean parent order, sorted
\* parent-id tuple), parentless nodes last, members of a group by id; so a
\* member of a group with a smaller mean precedes a member of one with a
\* larger mean.
C26_GroupsByParentMean ==
    [][RegroupCalls =>
          \A m, n \in Range(DeepestLayerNodes) :
              GroupedBefore(m, n) => node_orders'[m] < node_orders'[n]]_vars

\* ------------------------------------------------------------ termination
\* The function is sequential code that nothing blocks: whenever a step of
\* the call is possible, the interpreter takes it.
\* Inputs: LiveNodes nodes, at most LiveEdges distinct edges in ascending
\* order, self-loops and cycles included.
LiveEdgeLists ==
    LET S == 1..LiveNodes
    IN UNION {{s \in [1..k -> S \X S] : \A i \in 1..(k - 1) : PairLT(s[i], s[i + 1])}
                : k \in 0..LiveEdges}

InitLive ==
    /\ nodes = [i \in 1..LiveNodes |-> i]
    /\ edges \in LiveEdgeLists
    /\ hashOf \in ConstantHashes(nodes)
    /\ Start

SpecLive == InitLive /\ [][Next]_vars /\ WF_vars(Next)

\* no id was handed out twice by popleft()
DequeuedOnce ==
    \A i, j \in 1..Len(dequeued) : dequeued[i] = dequeued[j] => i = j

\* no id is twice in the queue, or in the queue after it was dequeued
EnqueuedOnce ==
    /\ \A i, j \in 1..Len(queue) : queue[i] = queue[j] => i = j
    /\ Range(queue) \cap Range(dequeued) = {}

\* C27: every call returns; on the way no node is enqueued or dequeued twice,
\* and at the return the sweep loop has run exactly `iterations` times.
C27_Terminates ==
    /\ [](DequeuedOnce /\ EnqueuedOnce)
    /\ []((pc = "done" /\ nodes # <<>>) => iteration = iterations)
    /\ (pc = "call") ~> (pc = "done")

\* a call has returned, after a sweep, for a graph with a self-loop and a
\* cycle of two nodes in which some node went through the queue and some did not
C27_Witness ==
    /\ pc = "done"
    /\ iterations = MaxIterations /\ iteration = iterations
    /\ \E n \in NodeIds(nodes) : <<n, n>> \in EdgeSet
    /\ \E m, n \in NodeIds(nodes) : m # n /\ <<m, n>> \in EdgeSet /\ <<n, m>> \in EdgeSet
    /\ dequeued # <<>>
    /\ Range(dequeued) # NodeIds(nodes)

\* ------------------------------------------------------- gap-free layers
\* C28: in the layer map assign_layers returns, cyclic graphs included, every
\* node of a layer k >= 1 has a parent in layer k - 1, and the layers in use
\* are exactly 0..L-1.
C28_LayersGapFree ==
    LayersReturned =>
        /\ NodeIds(nodes) \subseteq DOMAIN layers
        /\ \A n \in NodeIds(nodes) :
              layers[n] >= 1 => \E p \in ParentSet(n) : layers[p] = layers[n] - 1
        /\ \E L \in 1..Len(nodes) : {layers[n] : n \in NodeIds(nodes)} = 0..(L - 1)

\* a graph with a cycle has been layered, and a node that never left the
\* queue sits in a layer below the first
C28_Witness ==
    /\ pc = "done"
    /\ ~Acyclic
    /\ \E n \in NodeIds(nodes) : layers[n] >= 1 /\ n \notin Range(dequeued)
    /\ \E n \in NodeIds(nodes) : layers[n] = 2

\* ------------------------------------------- crossings against coordinates
\* the rank of n among the nodes of its layer by returned x
RankByX(n) ==
    Cardinality({m \in NodeIds(nodes) :
                    layers[m] = layers[n] /\ positions[m][1] < positions[n][1]})

\* C29: the returned crossings metric equals the crossing count recomputed
\* from the returned layer map and positions, each layer ordered by x.
C29_CrossingsMatchPositions ==
    LayoutReturned =>
        metrics.crossings =
            count_edge_crossings(GroupByLayer(nodes, layers), edges,
                                 Tabulate([n \in NodeIds(nodes) |-> RankByX(n)],
                                          NodeIds(nodes)),
                                 layers)

\* a layout with a crossing has been returned in which the order of a layer
\* by x is not its order by id
C29_Witness ==
    /\ LayoutReturned
    /\ metrics.crossings >= 1
    /\ \E m, n \in NodeIds(nodes) :
          /\ layers[m] = layers[n]
          /\ m < n
          /\ positions[n][1] < positions[m][1]

\* ------------------------------------------------------ distinct positions
\* C30: with unique ids, node_spacing > 0 and layer_separation > 0 no two
\* distinct nodes get the same (x, y).
C30_PositionsDistinct ==
    (LayoutReturned /\ node_spacing > 0 /\ layer_separation > 0) =>
        \A m, n \in NodeIds(nodes) : m # n => positions[m] # positions[n]

\* a layout has been returned in which two nodes of different layers share
\* their x and two nodes of one layer share their y
C30_Witness ==
    /\ LayoutReturned
    /\ node_spacing > 0 /\ layer_separation > 0
    /\ \E m, n \in NodeIds(nodes) :
          m # n /\ positions[m][1] = positions[n][1] /\ layers[m] # layers[n]
    /\ \E m, n \in NodeIds(nodes) :
          m # n /\ positions[m][2] = positions[n][2]

====
